---- MODULE Spec2Model ----
(***************************************************************************)
(* Magento2Api (falcon): the resolvers that read and write the session     *)
(* (cart quoteId, customerToken, orderId, orderQuoteId, paypalExpressHash) *)
(* and the REST requests they send.  Every `await` of a request is a point *)
(* where the resolver is suspended; the response is handled in a later     *)
(* step.  Resolvers of several callers run on the same session object.     *)
(***************************************************************************)
EXTENDS Integers, Sequences, FiniteSets, TLC

VARIABLES session, proc, last, created, calls, serial, signedOut, placed, pure

vars == <<session, proc, last, created, calls, serial, signedOut, placed, pure>>

\* created: the quote ids the backend has answered to cart-creation POSTs
\* signedOut: signOut has run and no signIn has resolved since
\* placed: the orderId the latest placeOrder call resolved with (None when it
\*   was rejected or none ran)
\* pure: a call of one of the converters, which touch neither the session nor
\*   the backend: its name, its argument, its result and the convertKeys it
\*   runs with
(* ------------------------------ bounds --------------------------------- *)
\* callers that run resolvers on the same session object
Procs == {1, 2}
\* number of resolver calls started in one behaviour when the resolvers run
\* one at a time
MaxCalls == 3
\* number of resolver calls started in one behaviour when they interleave
MaxConcCalls == 2
\* number of carts the backend creates (POST /carts/mine, POST /guest-carts)
MaxQuotes == 2
\* customer tokens the backend hands out
MaxTokens == 1
\* order ids the backend hands out
MaxOrders == 1

\* the largest price of a product; prices are 0..MaxPrice
MaxPrice == 2
\* the largest number of segments in the totals of an order or a cart
MaxSegments == 3

\* 0 stands for undefined / null / absent in every id-valued field
None == 0
\* the quoteId of a session cart { quoteId: undefined }, stored when the
\* backend answers a cart-creation POST without data
NoQuoteId == -1
\* a numeric attribute that is absent (undefined)
Absent == -1
Tokens == 1..MaxTokens
OrderIds == 1..MaxOrders
QuoteIds == 1..MaxQuotes

(* ------------------------------ requests ------------------------------- *)
Path(base, id, tail) == [base |-> base, id |-> id, tail |-> tail]

\* a request sent to the backend; quote is the quote id carried in the body
\* (guest_quote_id of signIn, cart_item.quote_id of addToCart), None if null
Req(method, path, quote) == [method |-> method, path |-> path, quote |-> quote]

(* ------------------------------- errors -------------------------------- *)
StockPrefix == <<"We", "don't", "have", "as", "many">>
NoCartPrefix == <<"No", "such", "entity", "with", "cartId">>

\* String.prototype.match(/^prefix/) on a message given as its words
StartsWith(msg, prefix) ==
    /\ Len(msg) >= Len(prefix)
    /\ SubSeq(msg, 1, Len(prefix)) = prefix

StatusCodes == {400, 401, 404, 503}
Messages == { StockPrefix \o <<"as", "you", "requested">>,
              <<"Sorry:">> \o StockPrefix,
              NoCartPrefix \o <<"=", "7">> }

\* an error as the REST data source rejects with it
BackendError(status, msg) ==
    [kind |-> "error", statusCode |-> status, message |-> msg, code |-> "",
     userMessage |-> FALSE, noLogging |-> FALSE]
BackendErrors == { BackendError(s, m) : s \in StatusCodes, m \in Messages }

\* new Error(text): no statusCode
NewError(text) == BackendError(None, <<text>>)
\* reading a property of undefined
TypeError == NewError("TypeError")

(* ------------------------------- values -------------------------------- *)
Bool(b) == [kind |-> "bool", b |-> b]
Null == [kind |-> "null"]
CartRef(q) == [kind |-> "cartRef", quoteId |-> q]
\* the data of a response, opaque to the resolver
Data(name) == [kind |-> "data", of |-> name]
\* undefined, or a response data that is undefined or {}
NoData == [kind |-> "nodata"]
emptyCart == [kind |-> "cart", active |-> FALSE, itemsQty |-> 0,
              items |-> <<>>, totals |-> <<>>]

(* ------------------------------- session ------------------------------- *)
\* session.cart is None (no cart) or the quoteId of { quoteId }, NoQuoteId
\* when that is undefined; session.token is None or customerToken.token
HasCartObject(s) == s.cart # None
\* cart && cart.quoteId
HasCart(s) == s.cart # None /\ s.cart # NoQuoteId
HasToken(s) == s.token # None

\* const { cart: { quoteId = null } = {} } = this.session
guestQuoteId(s) == IF HasCart(s) THEN s.cart ELSE None

\* getCartPath
getCartPathThrows(s) == ~HasToken(s) /\ ~HasCartObject(s)
getCartPath_cartFirst(s) ==
    IF HasCart(s) THEN Path("/guest-carts", s.cart, "") ELSE Path("/carts/mine", None, "")

getCartPath(s) ==
    IF HasToken(s) THEN Path("/carts/mine", None, "")
    ELSE Path("/guest-carts", s.cart, "")

(* ------------------------------- callers ------------------------------- *)
NoError == [kind |-> "none"]
NoResponse == [st |-> "none", isActive |-> FALSE, itemsQty |-> Absent, items |-> <<>>,
               totalSegments |-> <<>>]

\* a call of a resolver: op and pc, the requests it has sent (reqs), the ids
\* successful responses carried (resps), the error its request failed with
\* (err), its outcome (out), whether it saved the session (saved) and ran
\* convertCartData (merged), and its locals
Idle == [op |-> "none", pc |-> "idle", reqs |-> <<>>, resps |-> <<>>, err |-> NoError,
         out |-> [state |-> "none"],
         saved |-> FALSE, quoteId |-> None, cartPath |-> Path("", None, ""),
         quote |-> NoResponse, totals |-> NoResponse, first |-> "none",
         merged |-> FALSE, lastOrderId |-> None, autoSignIn |-> FALSE]

\* a resolver call starts: its locals, requests and outcome are fresh
Begin(op) == [Idle EXCEPT !.op = op, !.pc = "run", !.out = [state |-> "pending"]]

Resolve(c, v) == [c EXCEPT !.pc = "idle", !.out = [state |-> "resolved", value |-> v]]
Reject(c, e) == [c EXCEPT !.pc = "idle", !.out = [state |-> "rejected", value |-> e]]
Send(c, r) == [c EXCEPT !.reqs = Append(@, r)]
Recv(c, id) == [c EXCEPT !.resps = Append(@, id)]
Fail(c, e) == [c EXCEPT !.err = e]

Busy(p) == proc[p].pc # "idle"

\* caller p's resolver moves to c: suspended at an await, or settled; a
\* settled call is handed back to the caller and recorded as the last one,
\* until another call starts
Step(p, c) ==
    /\ pure' = pure
    /\ IF c.pc = "idle"
       THEN /\ proc' = [proc EXCEPT ![p] = Idle]
            /\ last' = [Idle EXCEPT !.op = c.op, !.reqs = c.reqs, !.resps = c.resps,
                                    !.err = c.err, !.out = c.out, !.saved = c.saved,
                                    !.merged = c.merged, !.first = c.first]
       ELSE /\ proc' = [proc EXCEPT ![p] = c]
            /\ last' = IF Busy(p) THEN last ELSE Idle

\* a caller may start a resolver when it runs none; when the resolvers are
\* run one at a time there is one caller, and it starts the next resolver
\* when the last one has settled
CanStart(p) ==
    /\ ~Busy(p)
    /\ calls < (IF serial THEN MaxCalls ELSE MaxConcCalls)
    /\ serial => (p = 1 /\ \A q \in Procs : ~Busy(q))

\* no converter is being called
NoCall == [fn |-> "none", mode |-> "none", arg |-> <<>>, res |-> <<>>, done |-> FALSE]

Sessions == [cart : {None}, token : {None}, orderId : {None},
             orderQuoteId : {None}, paypalExpressHash : {None, 1}]

\* a fresh session; the server runs one resolver at a time
Init ==
    /\ session \in Sessions
    /\ proc = [p \in Procs |-> Idle]
    /\ last = Idle
    /\ created = {}
    /\ calls = 0
    /\ serial = TRUE
    /\ signedOut = FALSE
    /\ placed = None
    /\ pure = NoCall

\* a fresh session, or the session of a guest for whom the backend has
\* created cart 1 before
GuestSessions ==
    LET fresh == { s \in Sessions : s.paypalExpressHash = None } IN
    fresh \cup { [s EXCEPT !.cart = 1] : s \in fresh }

\* the resolvers of the callers interleave at their awaits
InitConc ==
    /\ session \in GuestSessions
    /\ proc = [p \in Procs |-> Idle]
    /\ last = Idle
    /\ created = IF session.cart = None THEN {} ELSE {session.cart}
    /\ calls = 0
    /\ serial = FALSE
    /\ signedOut = FALSE
    /\ placed = None
    /\ pure = NoCall

(* ------------------------------ ensureCart ----------------------------- *)
\* ensureCart up to its first await: returns the session cart, or sends the
\* cart-creation POST and suspends
ensureCartPath_ignoresToken(s) == Path("/guest-carts", None, "")

ensureCartPath(s) ==
    IF HasToken(s) THEN Path("/carts/mine", None, "") ELSE Path("/guest-carts", None, "")

ensureCartSends(s) == ~HasCart(s)

EnsureCart(p) ==
    /\ CanStart(p)
    /\ calls' = calls + 1
    /\ LET c == Begin("ensureCart") IN
       Step(p,
                  IF ensureCartSends(session)
                  THEN [Send(c, Req("post", ensureCartPath(session), None))
                          EXCEPT !.pc = "ensureCart"]
                  ELSE Resolve(c, CartRef(session.cart)))
    /\ UNCHANGED <<session, created, serial, signedOut, placed>>

\* quote_id: cartData.quoteId in the body of addToCart's item POST
productQuoteId(cartData) == cartData

\* addToCart after `await this.ensureCart()`, in session s: getCartPath, the
\* body, the item POST; c.quoteId is cartData.quoteId
addToCartItems(c, s) ==
    IF getCartPathThrows(s)
    THEN Reject(c, NewError("No cart in session for not registered user."))
    ELSE LET cartPath == getCartPath(s) IN
         [Send(c, Req("post", [cartPath EXCEPT !.tail = "/items"],
                      productQuoteId(c.quoteId)))
            EXCEPT !.pc = "addToCart_items", !.cartPath = cartPath]

\* ensureCart returns the cart of session s: a call of ensureCart resolves
\* with it; signIn and addToCart, which await ensureCart, resume in a later
\* job, addToCart with cartData = that cart
AfterEnsureCart(c, s) ==
    CASE c.op = "ensureCart" -> Resolve(c, CartRef(s.cart))
      [] c.op = "signIn" -> [c EXCEPT !.pc = "signIn_ensured"]
      [] OTHER -> [c EXCEPT !.pc = "addToCart_ensured", !.quoteId = s.cart]

\* signIn's catch block
signInCatch(e) ==
    IF e.statusCode = 401 THEN [e EXCEPT !.userMessage = TRUE, !.noLogging = TRUE] ELSE e

\* the rejection of ensureCart as its awaiter passes it on
EnsureCartFailed(c, e) ==
    IF c.op = "signIn" THEN Reject(c, signInCatch(e)) ELSE Reject(c, e)

ensureCartStore_firstWins(s, id) == IF s.cart # None THEN s ELSE [s EXCEPT !.cart = id]

\* this.session.cart = { quoteId: response.data }
ensureCartStore(s, id) == [s EXCEPT !.cart = id]

\* the response to the cart-creation POST
EnsureCartResponse(p) ==
    /\ proc[p].pc = "ensureCart"
    /\ \/ /\ \E id \in QuoteIds \cup {NoQuoteId} :
                /\ created' = created \cup ({id} \cap QuoteIds)
                /\ session' = ensureCartStore(session, id)
                /\ Step(p, AfterEnsureCart(Recv(proc[p], id), session'))
          /\ UNCHANGED signedOut
       \/ /\ \E e \in BackendErrors :
                Step(p, EnsureCartFailed(Fail(proc[p], e), e))
          /\ UNCHANGED <<session, created, signedOut>>
    /\ UNCHANGED <<calls, serial, placed>>

(* -------------------------------- signOut ------------------------------ *)
signOutSession_keepsCart(s) == [s EXCEPT !.token = None]

\* delete this.session.customerToken; delete this.session.cart
signOutSession(s) == [s EXCEPT !.token = None, !.cart = None]

SignOut(p) ==
    /\ CanStart(p)
    /\ calls' = calls + 1
    /\ session' = signOutSession(session)
    /\ Step(p, Resolve(Begin("signOut"), Bool(TRUE)))
    /\ signedOut' = TRUE
    /\ UNCHANGED <<created, serial, placed>>

(* -------------------------------- signIn ------------------------------- *)
\* signIn up to its first await: the token request carries the session's
\* quoteId as guest_quote_id
signInCall(s) ==
    LET c == [Begin("signIn") EXCEPT !.quoteId = guestQuoteId(s)] IN
    [Send(c, Req("post", Path("/integration/customer/token", None, ""), c.quoteId))
       EXCEPT !.pc = "signIn_token"]

SignIn(p) ==
    /\ CanStart(p)
    /\ calls' = calls + 1
    /\ Step(p, signInCall(session))
    /\ UNCHANGED <<session, created, serial, signedOut, placed>>

signInSession_keepsGuestCart(s, token) == [s EXCEPT !.token = token]

\* the session once the token response is handled: customerToken is stored
\* and the guest cart deleted
signInSession(s, token) == [s EXCEPT !.token = token, !.cart = None]

SignInTokenResponse(p) ==
    /\ proc[p].pc = "signIn_token"
    /\ \/ \E t \in Tokens :
            LET s == signInSession(session, t) IN
            /\ session' = s
            \* await this.ensureCart(), up to its first await
            /\ Step(p,
                          IF ensureCartSends(s)
                          THEN [Send(Recv(proc[p], t), Req("post", ensureCartPath(s), None))
                                  EXCEPT !.pc = "ensureCart"]
                          ELSE AfterEnsureCart(Recv(proc[p], t), s))
            /\ UNCHANGED signedOut
       \/ /\ \E e \in BackendErrors :
                Step(p, Reject(Fail(proc[p], e), signInCatch(e)))
          /\ UNCHANGED <<session, signedOut>>
    /\ UNCHANGED <<created, calls, serial, placed>>

\* signIn after `await this.ensureCart()`: return true
SignInEnsured(p) ==
    /\ proc[p].pc = "signIn_ensured"
    /\ Step(p, Resolve(proc[p], Bool(TRUE)))
    /\ signedOut' = FALSE
    /\ UNCHANGED <<session, created, calls, serial, placed>>

(* -------------------------------- signUp ------------------------------- *)
\* signUp up to its await: POST /customers with the session's quoteId as
\* guest_quote_id
SignUp(p) ==
    /\ CanStart(p)
    /\ calls' = calls + 1
    /\ \E autoSignIn \in BOOLEAN :
         LET c == [Begin("signUp") EXCEPT !.quoteId = guestQuoteId(session),
                                          !.autoSignIn = autoSignIn] IN
         Step(p, [Send(c, Req("post", Path("/customers", None, ""), c.quoteId))
                    EXCEPT !.pc = "signUp"])
    /\ UNCHANGED <<session, created, serial, signedOut, placed>>

signUpCatch_onlyUserMessage(e) ==
    IF e.statusCode = 400 THEN [e EXCEPT !.userMessage = TRUE] ELSE e

\* signUp's catch block
signUpCatch(e) ==
    IF e.statusCode = 400 THEN [e EXCEPT !.userMessage = TRUE, !.noLogging = TRUE] ELSE e

\* the response to POST /customers; with autoSignIn the resolver returns
\* this.signIn(...): the call goes on as a signIn call, whose rejection does
\* not pass signUp's catch block (the promise is returned, not awaited)
SignUpResponse(p) ==
    /\ proc[p].pc = "signUp"
    /\ \/ Step(p, IF proc[p].autoSignIn THEN signInCall(session)
                  ELSE Resolve(Recv(proc[p], None), Bool(TRUE)))
       \/ \E e \in BackendErrors :
            Step(p, Reject(Fail(proc[p], e), signUpCatch(e)))
    /\ UNCHANGED <<session, created, calls, serial, signedOut, placed>>

(* -------------------------- validatePasswordToken ---------------------- *)
ResetTokens == {1}

ValidatePasswordToken(p) ==
    /\ CanStart(p)
    /\ calls' = calls + 1
    /\ \E token \in ResetTokens :
         Step(p, [Send(Begin("validatePasswordToken"),
                       Req("get", Path("/customers/0/password/resetLinkToken", token, ""),
                           None))
                    EXCEPT !.pc = "validatePasswordToken"])
    /\ UNCHANGED <<session, created, serial, signedOut, placed>>

\* validatePasswordToken's catch block
validatePasswordTokenCatch(e) == [e EXCEPT !.userMessage = TRUE, !.noLogging = TRUE]

\* the response to the GET; the catch block marks the error and does not
\* throw, so the resolver returns undefined (err holds the error as marked)
ValidatePasswordTokenResponse(p) ==
    /\ proc[p].pc = "validatePasswordToken"
    /\ \/ Step(p, Resolve(Recv(proc[p], Data("valid")), Data("valid")))
       \/ \E e \in BackendErrors :
            Step(p, Resolve(Fail(proc[p], validatePasswordTokenCatch(e)), NoData))
    /\ UNCHANGED <<session, created, calls, serial, signedOut, placed>>

(* --------------------------------- cart -------------------------------- *)
removeCartData_keepsCart(s) == s

\* removeCartData: delete session.cart, context.session.save()
removeCartData(s) == [s EXCEPT !.cart = None]

\* item ids of a cart response and of a totals response
ItemLists == {<<>>, <<1>>}
\* items_qty of a cart response
ItemsQtys == {Absent, 3}

Range(f) == {f[i] : i \in DOMAIN f}

\* convertCartData throws when a cart item has no entry in the totals items
convertCartDataThrows(quoteData, totalsData) ==
    \E i \in DOMAIN quoteData.items : quoteData.items[i] \notin Range(totalsData.items)

\* convertCartData returns the quote itself, with active, totals and the
\* merged items added: itemsQty is the quote's
convertCartData(quoteData, totalsData) ==
    [kind |-> "cart", active |-> quoteData.isActive, itemsQty |-> quoteData.itemsQty,
     items |-> quoteData.items, totals |-> totalsData.totalSegments]

Cart(p) ==
    /\ CanStart(p)
    /\ calls' = calls + 1
    /\ LET c == Begin("cart") IN
       Step(p,
                  IF ~HasCart(session) THEN Resolve(c, emptyCart)
                  ELSE LET cartPath == getCartPath(session) IN
                       [Send(Send(c, Req("get", cartPath, None)),
                             Req("get", [cartPath EXCEPT !.tail = "/totals"], None))
                          EXCEPT !.pc = "cart", !.cartPath = cartPath,
                                 !.quote = [NoResponse EXCEPT !.st = "pending"],
                                 !.totals = [NoResponse EXCEPT !.st = "pending"]])
    /\ UNCHANGED <<session, created, serial, signedOut, placed>>

\* which of the two responses of this call arrived first
arrivedFirst(c, which) == IF c.first = "none" THEN which ELSE c.first

\* the response to GET <cartPath> arrives
CartQuoteResponse(p) ==
    /\ proc[p].pc = "cart"
    /\ proc[p].quote.st = "pending"
    /\ \/ \E items \in ItemLists, itemsQty \in ItemsQtys :
            Step(p, [proc[p] EXCEPT !.quote = [NoResponse EXCEPT !.st = "ok",
                                                  !.isActive = TRUE, !.items = items,
                                                  !.itemsQty = itemsQty],
                                    !.first = arrivedFirst(proc[p], "quote")])
       \/ Step(p, [proc[p] EXCEPT !.quote = [NoResponse EXCEPT !.st = "fail"],
                                  !.first = arrivedFirst(proc[p], "quote")])
    /\ UNCHANGED <<session, created, calls, serial, signedOut, placed>>

\* the response to GET <cartPath>/totals arrives
CartTotalsResponse(p) ==
    /\ proc[p].pc = "cart"
    /\ proc[p].totals.st = "pending"
    /\ \/ \E items \in ItemLists :
            Step(p, [proc[p] EXCEPT !.totals = [NoResponse EXCEPT !.st = "ok",
                                                   !.items = items,
                                                   !.totalSegments = <<"subtotal">>],
                                    !.first = arrivedFirst(proc[p], "totals")])
       \/ Step(p, [proc[p] EXCEPT !.totals = [NoResponse EXCEPT !.st = "fail"],
                                  !.first = arrivedFirst(proc[p], "totals")])
    /\ UNCHANGED <<session, created, calls, serial, signedOut, placed>>

allFulfilled_quoteOnly(c) == c.quote.st = "ok"

\* Promise.all: fulfilled when both are, rejected as soon as one is
allFulfilled(c) == c.quote.st = "ok" /\ c.totals.st = "ok"
allRejected(c) == c.quote.st = "fail" \/ c.totals.st = "fail"

\* the continuation of `await Promise.all([...])`: merge, or the catch block
CartSettled(p) ==
    /\ proc[p].pc = "cart"
    /\ LET c == proc[p] IN
       \/ /\ allFulfilled(c)
          /\ IF convertCartDataThrows(c.quote, c.totals)
             THEN /\ session' = removeCartData(session)
                  /\ Step(p,
                                Resolve([c EXCEPT !.merged = TRUE, !.saved = TRUE], emptyCart))
             ELSE /\ Step(p,
                                Resolve([c EXCEPT !.merged = TRUE],
                                        convertCartData(c.quote, c.totals)))
                  /\ UNCHANGED session
       \/ /\ allRejected(c)
          /\ session' = removeCartData(session)
          /\ Step(p, Resolve([c EXCEPT !.saved = TRUE], emptyCart))
    /\ UNCHANGED <<created, calls, serial, signedOut, placed>>

(* ------------------- resolvers that need a customer token -------------- *)

\* customer
Customer(p) ==
    /\ CanStart(p)
    /\ calls' = calls + 1
    /\ LET c == Begin("customer") IN
       Step(p,
                  IF ~HasToken(session) THEN Resolve(c, Null)
                  ELSE [Send(c, Req("get", Path("/customers/me", None, ""), None))
                          EXCEPT !.pc = "request"])
    /\ UNCHANGED <<session, created, serial, signedOut, placed>>

\* orders
Orders(p) ==
    /\ CanStart(p)
    /\ calls' = calls + 1
    /\ LET c == Begin("orders") IN
       Step(p,
                  IF ~HasToken(session)
                  THEN Reject(c, NewError("Trying to fetch customer orders without valid customer token"))
                  ELSE [Send(c, Req("get", Path("/orders/mine", None, ""), None))
                          EXCEPT !.pc = "request"])
    /\ UNCHANGED <<session, created, serial, signedOut, placed>>

\* the data of a response: undefined or {} (NoData, above), or an order as
\* /orders/<id>/order-info returns it: its items, its
\* extensionAttributes.shippingAddress and its
\* payment.extensionAttributes.methodName (None: the attribute is absent)
OrderItem(id, productType, parentItem) ==
    [id |-> id, productType |-> productType, parentItem |-> parentItem]
OrderInfo(items, shippingAddress, methodName) ==
    [kind |-> "orderInfo", keys |-> "snake_case", items |-> items,
     shippingAddress |-> shippingAddress, methodName |-> methodName]
OrderInfos ==
    { NoData,
      OrderInfo(<< OrderItem(1, "configurable", None), OrderItem(2, "simple", 1),
                   OrderItem(3, "simple", None) >>, 1, 1) }

\* a response of the backend, and a promise of one that is not awaited: the
\* promise object has no data property
Response(d) == [kind |-> "response", data |-> d]
PendingPromise == [kind |-> "promise", data |-> NoData]

\* convertKeys of the base class returns the data with its keys, at every
\* depth, in camelCase
convertKeys(data) == [data EXCEPT !.keys = "camelCase"]

\* what convertKeys does to the object it is given: it converts that object
\* and returns it ("inPlace"), or leaves it alone and returns a converted
\* copy ("copy")
ConvertKeysModes == {"inPlace", "copy"}

\* the object that was handed to convertKeys, after the call
converted(mode, data) == IF mode = "inPlace" THEN convertKeys(data) ELSE data

\* the value v of an attribute the code reads by its camelCase name where the
\* backend names it in snake_case (extension_attributes, product_type,
\* total_segments, ...): undefined unless the keys are converted
camelCase(data, v, undefined) == IF data.keys = "camelCase" THEN v ELSE undefined

\* convertItemsResponse: the simple items, each replaced by its parentItem
\* when it has one
convertItemsResponse(response) ==
    LET products == SelectSeq(response, LAMBDA item : item.productType = "simple") IN
    [i \in DOMAIN products |->
        IF products[i].parentItem # None THEN products[i].parentItem ELSE products[i].id]

\* convertOrder: the argument itself when it has no data, else response.data
\* as convertKeys returned it, with the items reduced and with shippingAddress
\* and paymentMethodName lifted out of extensionAttributes and payment, which
\* are deleted then. The items, extensionAttributes and payment are read from
\* `data`, the object the response came with: they are found under their
\* camelCase names only when convertKeys has converted that object.
\* extensionAttributes and payment of the result: the shippingAddress and
\* methodName still held there (None: deleted, or never there)
convertOrder(mode, response) ==
    IF response.data = NoData THEN response
    ELSE LET data == converted(mode, response.data)
             returned == convertKeys(response.data)
             shippingAddress == camelCase(data, data.shippingAddress, None)
             methodName == camelCase(data, data.methodName, None)
         IN [kind |-> "order",
             items |-> convertItemsResponse(camelCase(data, data.items, <<>>)),
             shippingAddress |-> shippingAddress,
             paymentMethodName |-> methodName,
             extensionAttributes |->
                 IF shippingAddress # None THEN None ELSE returned.shippingAddress,
             payment |-> IF methodName # None THEN None ELSE returned.methodName]

\* what an async function resolves to when it returns v while the request
\* it sent is answered by response: a promise is adopted, a value is kept
Adopt(v, response) == IF v.kind = "promise" THEN response ELSE v

\* order(obj, {id}): const result = this.get(...) is not awaited, and
\* convertOrder(result) is what order returns
Order(p) ==
    /\ CanStart(p)
    /\ calls' = calls + 1
    /\ \E id \in {None} \cup OrderIds :
         LET c == Begin("order") IN
         Step(p,
                    IF id = None \/ ~HasToken(session)
                    THEN Reject(c, NewError("Failed to load an order."))
                    ELSE [Send(c, Req("get", Path("/orders", id, "/order-info"), None))
                            EXCEPT !.pc = "request"])
    /\ UNCHANGED <<session, created, serial, signedOut, placed>>

\* address, addCustomerAddress, editCustomerAddress, removeCustomerAddress:
\* the parameters each hands to forwardAddressAction
AddressActions ==
    { [op |-> "address", id |-> None, method |-> "get"],
      [op |-> "address", id |-> 1, method |-> "get"],
      [op |-> "addCustomerAddress", id |-> None, method |-> "post"],
      [op |-> "editCustomerAddress", id |-> None, method |-> "put"],
      [op |-> "removeCustomerAddress", id |-> 1, method |-> "delete"] }

\* forwardAddressAction
ForwardAddressAction(p) ==
    /\ CanStart(p)
    /\ calls' = calls + 1
    /\ \E a \in AddressActions :
         LET c == Begin(a.op) IN
         Step(p,
                    IF ~HasToken(session)
                    THEN Reject(c, NewError("You do not have an access to edit address data"))
                    ELSE [Send(c, Req(a.method, Path("/customers/me/address", a.id, ""), None))
                            EXCEPT !.pc = "request"])
    /\ UNCHANGED <<session, created, serial, signedOut, placed>>

\* changeCustomerPassword
ChangeCustomerPassword(p) ==
    /\ CanStart(p)
    /\ calls' = calls + 1
    /\ LET c == Begin("changeCustomerPassword") IN
       Step(p,
                  IF ~HasToken(session)
                  THEN Reject(c, NewError("You do not have an access to edit account data"))
                  ELSE [Send(c, Req("put", Path("/customers/me/password", None, ""), None))
                          EXCEPT !.pc = "request"])
    /\ UNCHANGED <<session, created, serial, signedOut, placed>>

\* changeCustomerPassword's catch block
changeCustomerPasswordCatch(e) ==
    IF e.statusCode \in {401, 503}
    THEN [e EXCEPT !.userMessage = TRUE, !.code = "", !.noLogging = TRUE]
    ELSE e

\* the data the backend may answer the request of such a resolver with:
\* true or false to the DELETE of an address and to the PUT of a password,
\* an order to order-info, data opaque to the resolver otherwise
ResponseData(op) ==
    CASE op \in {"removeCustomerAddress", "changeCustomerPassword"} -> {Bool(TRUE), Bool(FALSE)}
      [] op = "order" -> OrderInfos
      [] OTHER -> {Data(op)}

\* what each of these resolvers returns when its request is answered with
\* data d: order returns convertOrder of the promise, the others the data
\* (customer, orders and the address resolvers after converting it)
requestValue(mode, op, d) ==
    IF op = "order" THEN Adopt(convertOrder(mode, PendingPromise), Response(d)) ELSE d

\* the response to the one request of customer, orders, order,
\* forwardAddressAction or changeCustomerPassword
RequestResponse(p) ==
    /\ proc[p].pc = "request"
    /\ \/ \E d \in ResponseData(proc[p].op), mode \in ConvertKeysModes :
            Step(p, Resolve(Recv(proc[p], d), requestValue(mode, proc[p].op, d)))
       \/ \E e \in BackendErrors :
            Step(p,
                       Reject(Fail(proc[p], e), IF proc[p].op = "changeCustomerPassword"
                                       THEN changeCustomerPasswordCatch(e) ELSE e))
    /\ UNCHANGED <<session, created, calls, serial, signedOut, placed>>

(* ------------------------------- addToCart ----------------------------- *)
\* addToCart up to the first await of ensureCart
AddToCart(p) ==
    /\ CanStart(p)
    /\ calls' = calls + 1
    /\ LET c == Begin("addToCart") IN
       Step(p,
                  IF ensureCartSends(session)
                  THEN [Send(c, Req("post", ensureCartPath(session), None))
                          EXCEPT !.pc = "ensureCart"]
                  ELSE [c EXCEPT !.pc = "addToCart_ensured", !.quoteId = session.cart])
    /\ UNCHANGED <<session, created, serial, signedOut, placed>>

\* addToCart resumes after `await this.ensureCart()`
AddToCartItems(p) ==
    /\ proc[p].pc = "addToCart_ensured"
    /\ Step(p, addToCartItems(proc[p], session))
    /\ UNCHANGED <<session, created, calls, serial, signedOut, placed>>

\* addToCart's catch block: the error as rethrown
addToCartCatch(e) ==
    IF e.statusCode = 400
    THEN IF StartsWith(e.message, StockPrefix)
         THEN [e EXCEPT !.code = "STOCK_TOO_LOW", !.userMessage = TRUE, !.noLogging = TRUE]
         ELSE e
    ELSE IF StartsWith(e.message, NoCartPrefix)
         THEN [e EXCEPT !.code = "INVALID_CART"]
         ELSE e

addToCartRemovesCart_anyStatus(e) == StartsWith(e.message, NoCartPrefix)

\* addToCart's catch block: whether it calls removeCartData
addToCartRemovesCart(e) ==
    e.statusCode # 400 /\ StartsWith(e.message, NoCartPrefix)

AddToCartResponse(p) ==
    /\ proc[p].pc = "addToCart_items"
    /\ \/ /\ Step(p, Resolve(proc[p], Data("cartItem")))
          /\ UNCHANGED session
       \/ \E e \in BackendErrors :
            IF addToCartRemovesCart(e)
            THEN /\ session' = removeCartData(session)
                 /\ Step(p,
                               Reject([Fail(proc[p], e) EXCEPT !.saved = TRUE], addToCartCatch(e)))
            ELSE /\ Step(p, Reject(Fail(proc[p], e), addToCartCatch(e)))
                 /\ UNCHANGED session
    /\ UNCHANGED <<created, calls, serial, signedOut, placed>>

(* ------------------------------- placeOrder ---------------------------- *)
\* placeOrder's catch block around performCartAction
placeOrderCatch(e) ==
    IF e.statusCode = 400 THEN [e EXCEPT !.userMessage = TRUE, !.noLogging = TRUE] ELSE e

\* placeOrder up to the await in performCartAction('/deity-order', 'put', input)
PlaceOrder(p) ==
    /\ CanStart(p)
    /\ calls' = calls + 1
    /\ LET c == Begin("placeOrder") IN
       Step(p,
                  IF ~HasCartObject(session)
                  THEN Reject(c, placeOrderCatch(TypeError))
                  ELSE IF ~HasCart(session)
                  THEN Reject(c, placeOrderCatch(NewError(
                           "Quote id is empty, cannot perform api call for /deity-order")))
                  ELSE LET cartPath == getCartPath(session) IN
                       [Send(c, Req("put", [cartPath EXCEPT !.tail = "/deity-order"], None))
                          EXCEPT !.pc = "placeOrder", !.cartPath = cartPath])
    /\ placed' = IF ~HasCart(session) THEN None ELSE placed
    /\ UNCHANGED <<session, created, serial, signedOut>>

placeOrderSession_writesQuoteFirst(s, o) ==
    [s EXCEPT !.orderId = o, !.orderQuoteId = guestQuoteId(s)]

\* the session after placeOrder handled a response whose data has orderId o
\* (None: the data has no orderId, or is not an object)
placeOrderSession(s, o) ==
    IF o # None /\ HasCartObject(s)
    THEN [s EXCEPT !.orderId = o, !.orderQuoteId = guestQuoteId(s)]
    ELSE [s EXCEPT !.orderId = o]

placeOrderOutcome(c, s, o) ==
    IF o = None THEN Reject(c, NewError("no order id from magento."))
    ELSE IF ~HasCartObject(s) THEN Reject(c, TypeError)
    ELSE Resolve(c, [kind |-> "placed", orderId |-> o])

PlaceOrderResponse(p) ==
    /\ proc[p].pc = "placeOrder"
    /\ \/ \E o \in {None} \cup OrderIds :
            /\ session' = placeOrderSession(session, o)
            /\ Step(p, placeOrderOutcome(Recv(proc[p], o), session, o))
            /\ placed' = IF HasCartObject(session) THEN o ELSE None
       \/ /\ \E e \in BackendErrors :
                Step(p, Reject(Fail(proc[p], e), placeOrderCatch(e)))
          /\ placed' = None
          /\ UNCHANGED session
    /\ UNCHANGED <<created, calls, serial, signedOut>>

(* ------------------------------- lastOrder ----------------------------- *)
OrderPath(id) == Path("/orders", id, "")

lastOrderAsksPaypal_ignoresOrderId(s) == s.paypalExpressHash # None

\* if (!orderId && paypalExpressHash)
lastOrderAsksPaypal(s) == s.orderId = None /\ s.paypalExpressHash # None

LastOrder(p) ==
    /\ CanStart(p)
    /\ calls' = calls + 1
    /\ LET c == Begin("lastOrder")
           orderId == session.orderId
           paypalExpressHash == session.paypalExpressHash
       IN
       Step(p,
                  IF lastOrderAsksPaypal(session)
                  THEN [Send(c, Req("get", Path("/orders/get-order-from-paypal-hash",
                                                 paypalExpressHash, ""), None))
                          EXCEPT !.pc = "lastOrder_hash"]
                  ELSE IF orderId = None
                  THEN Resolve(c, [kind |-> "empty"])
                  ELSE [Send(c, Req("get", OrderPath(orderId), None))
                          EXCEPT !.pc = "lastOrder_order", !.lastOrderId = orderId])
    /\ UNCHANGED <<session, created, serial, signedOut, placed>>

\* the response to GET /orders/get-order-from-paypal-hash/<hash>
LastOrderHashResponse(p) ==
    /\ proc[p].pc = "lastOrder_hash"
    /\ \/ \E o \in {None} \cup OrderIds :
            Step(p,
                       IF o = None THEN Resolve(Recv(proc[p], o), [kind |-> "empty"])
                       ELSE [Send(Recv(proc[p], o), Req("get", OrderPath(o), None))
                               EXCEPT !.pc = "lastOrder_order", !.lastOrderId = o])
       \/ \E e \in BackendErrors :
            Step(p, Reject(Fail(proc[p], e), e))
    /\ UNCHANGED <<session, created, calls, serial, signedOut, placed>>

\* the response to GET /orders/<lastOrderId>
LastOrderResponse(p) ==
    /\ proc[p].pc = "lastOrder_order"
    /\ \/ Step(p,
                     Resolve(proc[p], [kind |-> "order", id |-> proc[p].lastOrderId]))
       \/ \E e \in BackendErrors :
            Step(p, Reject(Fail(proc[p], e), e))
    /\ UNCHANGED <<session, created, calls, serial, signedOut, placed>>

(* -------------------------------- coupons ----------------------------- *)
CouponCodes == {"SALE"}

\* applyCoupon up to its await: getCartPath runs in the declaration, before
\* the quoteId is looked at
ApplyCoupon(p) ==
    /\ CanStart(p)
    /\ calls' = calls + 1
    /\ \E couponCode \in CouponCodes :
         LET c == Begin("applyCoupon") IN
         Step(p,
              IF getCartPathThrows(session)
              THEN Reject(c, NewError("No cart in session for not registered user."))
              ELSE IF ~HasCart(session)
              THEN Reject(c, NewError("Trying to apply coupon without quoteId in session"))
              ELSE LET route == getCartPath(session) IN
                   [Send(c, Req("put", [route EXCEPT !.tail = "/coupons/" \o couponCode],
                                None))
                      EXCEPT !.pc = "applyCoupon", !.cartPath = route])
    /\ UNCHANGED <<session, created, serial, signedOut, placed>>

\* applyCoupon's catch block
applyCouponCatch(e) ==
    IF e.statusCode = 404 THEN [e EXCEPT !.userMessage = TRUE, !.noLogging = TRUE] ELSE e

\* the response to PUT <route>/coupons/<couponCode>
ApplyCouponResponse(p) ==
    /\ proc[p].pc = "applyCoupon"
    /\ \/ Step(p, Resolve(Recv(proc[p], Data("coupon")), Data("coupon")))
       \/ \E e \in BackendErrors :
            Step(p, Reject(Fail(proc[p], e), applyCouponCatch(e)))
    /\ UNCHANGED <<session, created, calls, serial, signedOut, placed>>

\* cancelCoupon: the DELETE is sent and not awaited; result is the promise
\* and result.data is returned at once. The response to the DELETE, or its
\* failure, reaches no code of the resolver.
CancelCoupon(p) ==
    /\ CanStart(p)
    /\ calls' = calls + 1
    /\ LET c == Begin("cancelCoupon") IN
       Step(p,
            IF getCartPathThrows(session)
            THEN Reject(c, NewError("No cart in session for not registered user."))
            ELSE IF HasCart(session)
            THEN LET route == getCartPath(session)
                     result == PendingPromise
                 IN Resolve(Send(c, Req("delete", [route EXCEPT !.tail = "/coupons"], None)),
                            result.data)
            ELSE Reject(c, NewError("Trying to remove coupon without quoteId in session")))
    /\ UNCHANGED <<session, created, serial, signedOut, placed>>

(* ------------------------------ converters ---------------------------- *)
Prices == 0..MaxPrice
\* JavaScript truthiness of a price: neither undefined nor 0
Truthy(x) == x # Absent /\ x # 0

\* the attributes of a product convertProductData computes the prices from:
\* data.price and extension_attributes.{catalogDisplayPrice, minPrice, maxPrice}
Products ==
    [keys : {"snake_case"},
     price : Prices \cup {Absent}, catalogDisplayPrice : Prices \cup {Absent},
     minPrice : Prices \cup {Absent}, maxPrice : Prices \cup {Absent}]

chosenPrice_ignoresCatalog(catalogPrice, price) == price

\* const price = catalogPrice || data.price
chosenPrice(catalogPrice, price) == IF Truthy(catalogPrice) THEN catalogPrice ELSE price

\* the extensionAttributes the code reads from the converted data
extensionAttributes(data) ==
    [catalogDisplayPrice |-> camelCase(data, data.catalogDisplayPrice, Absent),
     minPrice |-> camelCase(data, data.minPrice, Absent),
     maxPrice |-> camelCase(data, data.maxPrice, Absent)]

\* isEmpty(extensionAttributes), of the attributes looked at here
extensionEmpty(ext) ==
    ext.catalogDisplayPrice = Absent /\ ext.minPrice = Absent /\ ext.maxPrice = Absent

\* convertProductData returns the response it was given; these are the price
\* attributes of its data d afterwards. The code writes them to `data`, what
\* convertKeys returned: they are on response.data when that is the object
\* convertKeys was given, and on a copy, which is dropped, when it is not
convertProductData(mode, d) ==
    LET data == convertKeys(d)
        ext == extensionAttributes(data)
        price == chosenPrice(ext.catalogDisplayPrice, data.price)
        minPrice == IF ~extensionEmpty(ext) /\ Truthy(ext.minPrice) THEN ext.minPrice ELSE Absent
        maxPrice == IF ~extensionEmpty(ext) /\ Truthy(ext.maxPrice) THEN ext.maxPrice ELSE Absent
        same == minPrice = maxPrice
    IN IF mode = "inPlace"
       THEN [priceAmount |-> data.price,
             price |-> IF Truthy(minPrice) /\ price = 0 THEN minPrice ELSE price,
             minPrice |-> IF same THEN Absent ELSE minPrice,
             maxPrice |-> IF same THEN Absent ELSE maxPrice]
       ELSE [priceAmount |-> Absent, price |-> d.price,
             minPrice |-> Absent, maxPrice |-> Absent]

\* the segments of a totals response
Segments ==
    { [code |-> "subtotal", value |-> 1], [code |-> "discount", value |-> 1],
      [code |-> "discount", value |-> 2], [code |-> "tax", value |-> 1] }

SegmentLists == UNION { [1..n -> Segments] : n \in 0..MaxSegments }

\* the data convertTotals is given: with totalSegments or without
Totals ==
    { [keys |-> "snake_case", present |-> TRUE, totalSegments |-> l] : l \in SegmentLists }
      \cup { [keys |-> "snake_case", present |-> FALSE, totalSegments |-> <<>>] }

findIndex_last(list, code) ==
    IF \E i \in DOMAIN list : list[i].code = code
    THEN CHOOSE i \in DOMAIN list :
            list[i].code = code /\ \A j \in DOMAIN list : list[j].code = code => j <= i
    ELSE 0

\* Array.prototype.findIndex(item => item.code === code), counted from 1;
\* 0 when there is none
findIndex(list, code) ==
    IF \E i \in DOMAIN list : list[i].code = code
    THEN CHOOSE i \in DOMAIN list :
            list[i].code = code /\ \A j \in 1..(i - 1) : list[j].code # code
    ELSE 0

\* list.splice(i, 1) and list.splice(i, 0, x), i counted from 1; an insert
\* position beyond the end appends
spliceOut(list, i) == SubSeq(list, 1, i - 1) \o SubSeq(list, i + 1, Len(list))
spliceIn(list, i, x) ==
    LET k == IF i > Len(list) + 1 THEN Len(list) + 1 ELSE i IN
    SubSeq(list, 1, k - 1) \o <<x>> \o SubSeq(list, k, Len(list))

\* convertTotals returns the response it was given; this is its data d
\* afterwards. In totalsData, what convertKeys returned, the first discount
\* segment is taken out and put in at JavaScript index 1: that is
\* response.data when it is the object convertKeys was given, else
\* response.data is as it was
convertTotals(mode, d) ==
    LET totalsData == convertKeys(d) IN
    IF mode # "inPlace" THEN d
    ELSE IF ~camelCase(totalsData, totalsData.present, FALSE) THEN totalsData
    ELSE LET totalSegments == totalsData.totalSegments
             discountIndex == findIndex(totalSegments, "discount")
         IN IF discountIndex = 0 THEN totalsData
            ELSE [totalsData EXCEPT !.totalSegments =
                     spliceIn(spliceOut(totalSegments, discountIndex), 2,
                              totalSegments[discountIndex])]

\* the calls of the converters, before they run
ConverterCalls ==
    { [fn |-> "convertProductData", mode |-> m, arg |-> d, res |-> d, done |-> FALSE] :
         m \in ConvertKeysModes, d \in Products }
      \cup { [fn |-> "convertTotals", mode |-> m, arg |-> d, res |-> d, done |-> FALSE] :
                m \in ConvertKeysModes, d \in Totals }

\* a converter is about to be called on some data; no resolver runs
InitConverters ==
    /\ session \in Sessions
    /\ proc = [p \in Procs |-> Idle]
    /\ last = Idle
    /\ created = {}
    /\ calls = 0
    /\ serial = TRUE
    /\ signedOut = FALSE
    /\ placed = None
    /\ pure \in ConverterCalls

ConvertProductData ==
    /\ pure.fn = "convertProductData"
    /\ ~pure.done
    /\ pure' = [pure EXCEPT !.res = convertProductData(pure.mode, pure.arg), !.done = TRUE]
    /\ UNCHANGED <<session, proc, last, created, calls, serial, signedOut, placed>>

ConvertTotals ==
    /\ pure.fn = "convertTotals"
    /\ ~pure.done
    /\ pure' = [pure EXCEPT !.res = convertTotals(pure.mode, pure.arg), !.done = TRUE]
    /\ UNCHANGED <<session, proc, last, created, calls, serial, signedOut, placed>>

NextConverters == ConvertProductData \/ ConvertTotals

Next ==
    \E p \in Procs :
        \/ EnsureCart(p)
        \/ EnsureCartResponse(p)
        \/ SignIn(p)
        \/ SignInTokenResponse(p)
        \/ SignInEnsured(p)
        \/ SignOut(p)
        \/ Cart(p)
        \/ CartQuoteResponse(p)
        \/ CartTotalsResponse(p)
        \/ CartSettled(p)
        \/ Customer(p)
        \/ Orders(p)
        \/ Order(p)
        \/ ForwardAddressAction(p)
        \/ ChangeCustomerPassword(p)
        \/ RequestResponse(p)
        \/ AddToCart(p)
        \/ AddToCartItems(p)
        \/ AddToCartResponse(p)
        \/ PlaceOrder(p)
        \/ PlaceOrderResponse(p)
        \/ LastOrder(p)
        \/ LastOrderHashResponse(p)
        \/ LastOrderResponse(p)
        \/ ApplyCoupon(p)
        \/ ApplyCouponResponse(p)
        \/ CancelCoupon(p)
        \/ SignUp(p)
        \/ SignUpResponse(p)
        \/ ValidatePasswordToken(p)
        \/ ValidatePasswordTokenResponse(p)

\* the resolvers that work on the session cart and the customer token
NextConc ==
    \E p \in Procs :
        \/ EnsureCart(p)
        \/ EnsureCartResponse(p)
        \/ SignIn(p)
        \/ SignInTokenResponse(p)
        \/ SignInEnsured(p)
        \/ SignOut(p)
        \/ Cart(p)
        \/ CartQuoteResponse(p)
        \/ CartTotalsResponse(p)
        \/ CartSettled(p)
        \/ AddToCart(p)
        \/ AddToCartItems(p)
        \/ AddToCartResponse(p)

Spec == Init /\ [][Next]_vars
SpecConc == InitConc /\ [][NextConc]_vars
SpecConverters == InitConverters /\ [][NextConverters]_vars

(* ============================= properties ============================== *)
\* a step in which a call settles (resolves or rejects); last' is that call
Settling ==
    \/ \E p \in Procs : proc[p].pc # "idle" /\ proc'[p].pc = "idle"
    \/ calls' = calls + 1 /\ proc' = proc

\* the call that starts in a step with calls' = calls + 1, as the step leaves it
StartedCall ==
    IF proc' = proc THEN last' ELSE proc'[CHOOSE p \in Procs : proc'[p] # proc[p]]

Begins(op) == calls' = calls + 1 /\ StartedCall.op = op

\* caller p's call settles in this step, having been suspended at pc
SettlesFrom(p, pc) == proc[p].pc = pc /\ proc'[p].pc = "idle"

AllIdle == \A p \in Procs : proc[p].pc = "idle"

ResolvedWith(c, v) == c.out = [state |-> "resolved", value |-> v]
Rejected(c) == c.out.state = "rejected"
Resolved(c) == c.out.state = "resolved"

\* the session has a cart with a quoteId
HasQuoteId(s) == s.cart \notin {None, NoQuoteId}

\* what ensureCart does when it starts and when its POST is answered
EnsureCartSteps ==
    /\ Begins("ensureCart") =>
          /\ session' = session
          /\ IF HasQuoteId(session)
             THEN /\ Settling
                  /\ ResolvedWith(last', CartRef(session.cart))
                  /\ last'.reqs = <<>>
             ELSE /\ ~Settling
                  /\ StartedCall.reqs =
                       << Req("post",
                              Path(IF session.token # None THEN "/carts/mine"
                                   ELSE "/guest-carts", None, ""),
                              None) >>
    /\ \A p \in Procs :
          (proc[p].op = "ensureCart" /\ SettlesFrom(p, "ensureCart")) =>
              /\ Len(last'.reqs) = 1
              /\ Resolved(last') =>
                   /\ Len(last'.resps) = 1
                   /\ session'.cart = last'.resps[1]
                   /\ ResolvedWith(last', CartRef(last'.resps[1]))

\* C1: ensureCart with a cart quoteId in the session returns that cart, sends
\* no request and leaves the session unchanged; otherwise it sends exactly one
\* POST, to /carts/mine with a customer token and to /guest-carts without, and
\* stores the returned id as session.cart.quoteId; whenever it resolves,
\* session.cart.quoteId is set.
C1_EnsureCart ==
    [][ /\ EnsureCartSteps
        /\ (Settling /\ last'.op = "ensureCart" /\ Resolved(last')) => HasQuoteId(session')
      ]_vars

\* what ensureCart does guarantee: when it resolves the session has a cart
\* object whose quoteId is what the POST answered, set when the answer carried
\* an id.
C1_EnsureCartAnswered ==
    [][ /\ EnsureCartSteps
        /\ (Settling /\ last'.op = "ensureCart" /\ Resolved(last')) =>
              /\ session'.cart # None
              /\ (last'.reqs = <<>> \/ last'.resps[1] # NoQuoteId) => HasQuoteId(session')
      ]_vars

\* C1, the case at hand: the POST was answered without data and ensureCart
\* resolved with session.cart = { quoteId: undefined }
C1_EmptyAnswer ==
    /\ last.op = "ensureCart"
    /\ Resolved(last)
    /\ last.resps = <<NoQuoteId>>
    /\ session.cart = NoQuoteId

\* a signed-in customer without a cart got one from POST /carts/mine
C1_Witness ==
    /\ last.op = "ensureCart"
    /\ Resolved(last)
    /\ Len(last.reqs) = 1
    /\ last.reqs[1].path.base = "/carts/mine"
    /\ session.cart = last.resps[1]

\* C2: cart() with a quoteId issues GET <cartPath> and GET <cartPath>/totals
\* together, before either response; convertCartData runs only when both
\* responses have arrived, in either order, and never when one request failed.
C2_CartMerge ==
    [][ /\ (Begins("cart") /\ HasQuoteId(session)) =>
             /\ ~Settling
             /\ StartedCall.reqs =
                  << Req("get", getCartPath(session), None),
                     Req("get", [getCartPath(session) EXCEPT !.tail = "/totals"], None) >>
             /\ StartedCall.quote.st = "pending"
             /\ StartedCall.totals.st = "pending"
        /\ \A p \in Procs :
             SettlesFrom(p, "cart") =>
                 /\ last'.merged <=> (proc[p].quote.st = "ok" /\ proc[p].totals.st = "ok")
                 /\ (proc[p].quote.st = "fail" \/ proc[p].totals.st = "fail") => ~last'.merged
      ]_vars

\* C2 witness: the totals response arrived before the cart response and the
\* two were merged
C2_Witness ==
    /\ last.op = "cart"
    /\ last.merged
    /\ last.first = "totals"
    /\ Resolved(last)
    /\ last.out.value.active

\* C3: cart() never rejects; without a quoteId it resolves to the empty cart,
\* sends nothing and leaves the session alone; when one of its requests fails
\* it resolves to the empty cart with the session cart deleted and the
\* session saved.
C3_CartNeverRejects ==
    [][ /\ (Settling /\ last'.op = "cart") => Resolved(last')
        /\ (Begins("cart") /\ ~HasQuoteId(session)) =>
             /\ Settling
             /\ ResolvedWith(last', emptyCart)
             /\ last'.reqs = <<>>
             /\ ~last'.saved
             /\ session' = session
        /\ \A p \in Procs :
             (SettlesFrom(p, "cart")
                /\ (proc[p].quote.st = "fail" \/ proc[p].totals.st = "fail")) =>
                 /\ ResolvedWith(last', emptyCart)
                 /\ session'.cart = None
                 /\ last'.saved
      ]_vars

\* C3 witness: a cart() whose request failed resolved to the empty cart
C3_Witness ==
    /\ last.op = "cart"
    /\ Len(last.reqs) = 2
    /\ ~last.merged
    /\ last.saved
    /\ ResolvedWith(last, emptyCart)
    /\ session.cart = None

\* C4: signIn sends the token request with guest_quote_id = the session's
\* quoteId at call time (null without one); when the token request succeeds a
\* POST /carts/mine follows, and when both succeed signIn resolves to true
\* with session.customerToken.token the returned token and session.cart.quoteId
\* the id returned by POST /carts/mine, not the guest cart's.
C4_SignIn ==
    [][ /\ Begins("signIn") =>
             /\ session' = session
             /\ StartedCall.reqs =
                  << Req("post", Path("/integration/customer/token", None, ""),
                         IF HasQuoteId(session) THEN session.cart ELSE None) >>
        /\ \A p \in Procs :
             /\ SettlesFrom(p, "signIn_token") => Rejected(last')
             /\ (proc[p].pc = "signIn_token" /\ proc'[p].pc # "idle") =>
                  /\ Len(proc'[p].reqs) = 2
                  /\ proc'[p].reqs[Len(proc'[p].reqs)]
                       = Req("post", Path("/carts/mine", None, ""), None)
                  /\ session'.token = proc'[p].resps[1]
        /\ (Settling /\ last'.op = "signIn" /\ Len(last'.resps) = 2) =>
             /\ ResolvedWith(last', Bool(TRUE))
             /\ Len(last'.reqs) = 2
             /\ session'.token = last'.resps[1]
             /\ session'.token # None
             /\ session'.cart = last'.resps[2]
      ]_vars

\* C4 witness: a guest with a cart signed in
C4_Witness ==
    /\ last.op = "signIn"
    /\ ResolvedWith(last, Bool(TRUE))
    /\ last.reqs[1].quote # None
    /\ session.token = last.resps[1]
    /\ session.cart = last.resps[2]
    /\ session.cart # last.reqs[1].quote

\* C5: signOut leaves the session without customerToken and without cart,
\* sends no request and resolves to true.
C5_SignOut ==
    [][ /\ Begins("signOut") => Settling
        /\ (Settling /\ last'.op = "signOut") =>
             /\ session'.token = None
             /\ session'.cart = None
             /\ last'.reqs = <<>>
             /\ ResolvedWith(last', Bool(TRUE))
      ]_vars

\* C5 witness: signOut right after a call that left a cart in the session
C5_Witness ==
    /\ last.op = "signOut"
    /\ calls = 2
    /\ Cardinality(created) = 1
    /\ session.token = None
    /\ session.cart = None

\* the resolvers that refuse to work without a customer token
TokenResolvers ==
    {"customer", "orders", "order", "address", "addCustomerAddress",
     "editCustomerAddress", "removeCustomerAddress", "changeCustomerPassword"}

\* such a resolver, started now, sends nothing and leaves the session alone:
\* customer resolves to null, the others throw
RefusesNow ==
    /\ Settling
    /\ last'.reqs = <<>>
    /\ session' = session
    /\ IF last'.op = "customer" THEN ResolvedWith(last', Null) ELSE Rejected(last')

\* while the session has no customerToken.token
NoTokenNoRequest ==
    \A op \in TokenResolvers : (Begins(op) /\ session.token = None) => RefusesNow

\* from signOut until the next signIn that resolves
SignedOutNoRequest ==
    \A op \in TokenResolvers : (Begins(op) /\ signedOut) => RefusesNow

\* C6: without customerToken.token, customer() resolves to null and orders,
\* order, forwardAddressAction and changeCustomerPassword throw, no request
\* is sent and the session is unchanged; this is so from signOut until the
\* next successful signIn.
C6_TokenGate == [][NoTokenNoRequest /\ SignedOutNoRequest]_vars

\* the first half of C6 alone
C6_NoTokenPart == [][NoTokenNoRequest]_vars

\* C7: with interleaved ensureCart calls on a session without a cart each
\* call in flight has sent its own cart-creation POST, and once the calls are
\* over session.cart.quoteId is the id of the response handled last.
C7_LastWriteWins ==
    /\ \A p \in Procs :
         (proc[p].op = "ensureCart" /\ proc[p].pc = "ensureCart") =>
             /\ Len(proc[p].reqs) = 1
             /\ proc[p].reqs[1].method = "post"
             /\ proc[p].reqs[1].path.base \in {"/carts/mine", "/guest-carts"}
    /\ (AllIdle /\ last.op = "ensureCart" /\ Resolved(last) /\ Len(last.reqs) = 1) =>
         session.cart = last.resps[1]

\* C7 witness: two calls, no more, and the session has a customer token: a
\* signIn and an ensureCart. The ensureCart sent its POST to /carts/mine, so
\* it started after signIn had stored the token and deleted the cart, and it
\* did send one, so it started before the answer (id 2) to the POST of
\* signIn's own ensureCart was handled: the two ensureCart calls overlapped.
\* The answer handled last carried id 1 and the session holds 1, not 2
C7_Witness ==
    /\ AllIdle
    /\ calls = 2
    /\ created = {1, 2}
    /\ session.token # None
    /\ last.op = "ensureCart"
    /\ last.reqs = << Req("post", Path("/carts/mine", None, ""), None) >>
    /\ last.resps = <<1>>
    /\ session.cart = 1

\* C8: a failed item POST of addToCart is always rethrown; the error gets code
\* STOCK_TOO_LOW, userMessage and noLogging exactly when its statusCode is 400
\* and its message starts with "We don't have as many"; with another
\* statusCode and a message starting with 'No such entity with cartId' the
\* session cart is deleted and the code is INVALID_CART; otherwise the session
\* cart is kept.
C8_AddToCartErrors ==
    [][ \A p \in Procs :
          (SettlesFrom(p, "addToCart_items") /\ last'.err # NoError) =>
             LET e == last'.out.value
                 stock == /\ last'.err.statusCode = 400
                          /\ StartsWith(last'.err.message, StockPrefix)
                 gone == /\ last'.err.statusCode # 400
                         /\ StartsWith(last'.err.message, NoCartPrefix)
             IN /\ Rejected(last')
                /\ e.statusCode = last'.err.statusCode
                /\ e.message = last'.err.message
                /\ (e.code = "STOCK_TOO_LOW") <=> stock
                /\ e.userMessage <=> stock
                /\ e.noLogging <=> stock
                /\ gone => (session'.cart = None /\ e.code = "INVALID_CART")
                /\ ~gone => (session'.cart = session.cart /\ e.code # "INVALID_CART")
      ]_vars

\* C8 witness: an item POST failed with 'No such entity with cartId' and the
\* session cart was deleted
C8_Witness ==
    /\ last.op = "addToCart"
    /\ Rejected(last)
    /\ last.out.value.code = "INVALID_CART"
    /\ last.saved
    /\ session.cart = None

\* C9: when PUT <cartPath>/deity-order succeeds with an orderId, the session
\* gets that orderId and orderQuoteId = the session cart's quoteId; without an
\* orderId placeOrder throws 'no order id from magento.' and orderQuoteId is
\* not written.
C9_PlaceOrder ==
    [][ \A p \in Procs :
          (SettlesFrom(p, "placeOrder") /\ last'.err = NoError) =>
             /\ last'.reqs = << Req("put", [getCartPath(session) EXCEPT !.tail = "/deity-order"],
                                    None) >>
             /\ IF last'.resps[1] # None
                THEN /\ Resolved(last')
                     /\ session'.orderId = last'.resps[1]
                     /\ session'.cart # None
                     /\ session'.orderQuoteId = session'.cart
                ELSE /\ Rejected(last')
                     /\ last'.out.value.message = <<"no order id from magento.">>
                     /\ session'.orderQuoteId = session.orderQuoteId
      ]_vars

\* C9 witness: an order was placed
C9_Witness ==
    /\ last.op = "placeOrder"
    /\ Resolved(last)
    /\ session.orderId = last.resps[1]
    /\ session.cart # None
    /\ session.orderQuoteId = session.cart

\* C10: lastOrder fetches /orders/<session.orderId> when the session has an
\* orderId; only without one it asks /orders/get-order-from-paypal-hash/<hash>
\* and fetches the order that answer names; with no id from either it resolves
\* to {} without a request to /orders/<id>; after a placeOrder that resolved,
\* lastOrder fetches the order just placed.
C10_LastOrder ==
    [][ /\ Begins("lastOrder") =>
             /\ session' = session
             /\ IF session.orderId # None
                THEN /\ ~Settling
                     /\ StartedCall.reqs = << Req("get", Path("/orders", session.orderId, ""), None) >>
                ELSE IF session.paypalExpressHash # None
                THEN /\ ~Settling
                     /\ StartedCall.reqs =
                          << Req("get", Path("/orders/get-order-from-paypal-hash",
                                             session.paypalExpressHash, ""), None) >>
                ELSE /\ Settling
                     /\ ResolvedWith(last', [kind |-> "empty"])
                     /\ last'.reqs = <<>>
        /\ \A p \in Procs :
             /\ (proc[p].pc = "lastOrder_hash" /\ proc'[p].pc = "lastOrder_order") =>
                  /\ proc'[p].resps[1] # None
                  /\ proc'[p].reqs[2] = Req("get", Path("/orders", proc'[p].resps[1], ""), None)
             /\ (SettlesFrom(p, "lastOrder_hash") /\ last'.err = NoError) =>
                  /\ last'.resps = <<None>>
                  /\ ResolvedWith(last', [kind |-> "empty"])
                  /\ Len(last'.reqs) = 1
        /\ (Begins("lastOrder") /\ placed # None) =>
             StartedCall.reqs = << Req("get", Path("/orders", placed, ""), None) >>
      ]_vars

\* C11: order(obj, {id}) with an id and a customer token resolves to the data
\* of the order-info response as convertOrder processes it (items reduced by
\* convertItemsResponse, shippingAddress and paymentMethodName lifted), never
\* to the unprocessed response.
C11_OrderConverted ==
    [][ (Settling /\ last'.op = "order" /\ Len(last'.reqs) = 1 /\ last'.err = NoError) =>
           /\ Resolved(last')
           /\ last'.out.value.kind # "response"
           /\ \E mode \in ConvertKeysModes :
                 last'.out.value = convertOrder(mode, Response(last'.resps[1]))
      ]_vars

\* C11, the case at hand: order() resolved to the response object of an
\* order with items, not to the converted order
C11_RawResponse ==
    /\ last.op = "order"
    /\ Resolved(last)
    /\ last.resps[1] # NoData
    /\ last.out.value = Response(last.resps[1])

\* C12: cancelCoupon with a cart quoteId in the session resolves only after
\* DELETE <cartPath>/coupons has completed, with the data of the response
\* (true), and rejects when that request fails.
C12_CancelCoupon ==
    [][ (Settling /\ last'.op = "cancelCoupon" /\ HasQuoteId(session)) =>
           /\ Len(last'.reqs) = 1
           /\ last'.reqs[1].method = "delete"
           /\ last'.reqs[1].path.tail = "/coupons"
           /\ Len(last'.resps) = 1 \/ last'.err # NoError
           /\ Len(last'.resps) = 1 => ResolvedWith(last', Bool(TRUE))
           /\ last'.err # NoError => Rejected(last')
      ]_vars

\* C12, the case at hand: cancelCoupon has resolved to undefined while its
\* DELETE is unanswered
C12_ResolvedEarly ==
    /\ last.op = "cancelCoupon"
    /\ Len(last.reqs) = 1
    /\ last.resps = <<>>
    /\ last.err = NoError
    /\ ResolvedWith(last, NoData)

\* what applyCoupon does with a cart quoteId in the session
ApplyCouponWithCart ==
    /\ (Begins("applyCoupon") /\ HasQuoteId(session)) =>
          /\ ~Settling
          /\ session' = session
          /\ Len(StartedCall.reqs) = 1
          /\ StartedCall.reqs[1].method = "put"
          /\ StartedCall.reqs[1].path.base \in {"/carts/mine", "/guest-carts"}
          /\ StartedCall.reqs[1].path.tail \in {"/coupons/" \o code : code \in CouponCodes}
    /\ \A p \in Procs :
          SettlesFrom(p, "applyCoupon") =>
             IF last'.err = NoError
             THEN ResolvedWith(last', last'.resps[1])
             ELSE LET e == last'.out.value IN
                  /\ Rejected(last')
                  /\ e.statusCode = last'.err.statusCode
                  /\ e.message = last'.err.message
                  /\ e.userMessage <=> last'.err.statusCode = 404
                  /\ e.noLogging <=> last'.err.statusCode = 404

\* what applyCoupon does without one, as claimed
ApplyCouponWithoutCart ==
    (Begins("applyCoupon") /\ ~HasQuoteId(session)) =>
        /\ Settling
        /\ Rejected(last')
        /\ last'.out.value.message = <<"Trying to apply coupon without quoteId in session">>
        /\ last'.reqs = <<>>

\* C13: applyCoupon resolves to the response data when PUT
\* <cartPath>/coupons/<couponCode> succeeds; a failure is always rethrown,
\* marked userMessage and noLogging exactly when its statusCode is 404; and
\* without a cart quoteId in the session applyCoupon throws 'Trying to apply
\* coupon without quoteId in session' and sends no request.
C13_ApplyCoupon == [][ApplyCouponWithCart /\ ApplyCouponWithoutCart]_vars

\* the part of C13 about a session with a cart quoteId
C13_WithCartPart == [][ApplyCouponWithCart]_vars

\* C13, the case at hand: a guest without a cart got getCartPath's error
C13_OtherMessage ==
    /\ last.op = "applyCoupon"
    /\ Rejected(last)
    /\ last.reqs = <<>>
    /\ last.out.value.message = <<"No cart in session for not registered user.">>

\* C14: on the converted product priceAmount is the backend's price; price is
\* catalogDisplayPrice when that is non-zero, else the backend's price; when
\* the price so chosen is 0 and a non-zero minPrice is given, price is
\* minPrice; minPrice and maxPrice appear only when they differ. (The
\* converted product is the data convertKeys was given, converted by it.)
C14_PriceFallback ==
    (pure.fn = "convertProductData" /\ pure.done /\ pure.mode = "inPlace") =>
        LET d == pure.arg
            r == pure.res
            chosen == IF d.catalogDisplayPrice \notin {Absent, 0}
                      THEN d.catalogDisplayPrice ELSE d.price
        IN /\ r.priceAmount = d.price
           /\ IF chosen = 0 /\ d.minPrice \notin {Absent, 0}
              THEN r.price = d.minPrice
              ELSE r.price = chosen
           /\ (r.minPrice # Absent \/ r.maxPrice # Absent) => r.minPrice # r.maxPrice
           /\ r.minPrice \in {Absent, d.minPrice}
           /\ r.maxPrice \in {Absent, d.maxPrice}

\* C14 witness: a product priced 0, no catalog price, minPrice 1 and maxPrice
\* 2, converted: its price is 1 and both bounds are shown
C14_Witness ==
    /\ pure.fn = "convertProductData"
    /\ pure.done
    /\ pure.mode = "inPlace"
    /\ pure.arg = [keys |-> "snake_case", price |-> 0, catalogDisplayPrice |-> Absent,
                   minPrice |-> 1, maxPrice |-> 2]
    /\ pure.res = [priceAmount |-> 0, price |-> 1, minPrice |-> 1, maxPrice |-> 2]

\* C15: convertTotals on at least two segments, one of them a discount, puts
\* the first discount segment at JavaScript index 1 and keeps the order of
\* the others; the result is always a permutation of the input; a list
\* without a discount segment is unchanged. (The segments are those of the
\* data convertKeys was given, converted by it.)
C15_DiscountSecond ==
    (pure.fn = "convertTotals" /\ pure.done /\ pure.mode = "inPlace") =>
        LET in == pure.arg.totalSegments
            out == pure.res.totalSegments
            discounts == {i \in DOMAIN in : in[i].code = "discount"}
            without(l, i) == [j \in 1..(Len(l) - 1) |-> IF j < i THEN l[j] ELSE l[j + 1]]
        IN /\ pure.res.present = pure.arg.present
           /\ Len(out) = Len(in)
           /\ \A x \in Segments :
                 Cardinality({i \in DOMAIN in : in[i] = x})
                   = Cardinality({i \in DOMAIN out : out[i] = x})
           /\ discounts = {} => out = in
           /\ (Len(in) >= 2 /\ discounts # {}) =>
                 LET first == CHOOSE i \in discounts : \A j \in discounts : i <= j IN
                 /\ out[2] = in[first]
                 /\ without(out, 2) = without(in, first)

\* C15 witness: a discount segment first, another one last: the first has
\* moved to index 1, behind the subtotal, the other stays last
C15_Witness ==
    /\ pure.fn = "convertTotals"
    /\ pure.done
    /\ pure.mode = "inPlace"
    /\ pure.arg.totalSegments =
          << [code |-> "discount", value |-> 2], [code |-> "subtotal", value |-> 1],
             [code |-> "discount", value |-> 1] >>
    /\ pure.res.totalSegments =
          << [code |-> "subtotal", value |-> 1], [code |-> "discount", value |-> 2],
             [code |-> "discount", value |-> 1] >>

\* whether the catch block of a resolver marks an error, given the resolver
\* and the error's statusCode and message
Marks(op, statusCode, message) ==
    CASE op = "addToCart" -> statusCode = 400 /\ StartsWith(message, StockPrefix)
      [] op = "signIn" -> statusCode = 401
      [] op = "signUp" -> statusCode = 400
      [] op = "validatePasswordToken" -> TRUE
      [] op = "changeCustomerPassword" -> statusCode \in {401, 503}
      [] op = "applyCoupon" -> statusCode = 404
      [] op = "placeOrder" -> statusCode = 400
      [] OTHER -> FALSE

\* the suspensions inside the try block of a marking resolver
InTry(op, pc) ==
    \/ op = "addToCart" /\ pc = "addToCart_items"
    \/ op = "signIn" /\ pc \in {"signIn_token", "ensureCart"}
    \/ op = "signUp" /\ pc = "signUp"
    \/ op = "validatePasswordToken" /\ pc = "validatePasswordToken"
    \/ op = "changeCustomerPassword" /\ pc = "request"
    \/ op = "applyCoupon" /\ pc = "applyCoupon"
    \/ op = "placeOrder" /\ pc = "placeOrder"

\* C16: in addToCart, signIn, signUp, validatePasswordToken,
\* changeCustomerPassword, applyCoupon and placeOrder the error a request in
\* the try block failed with is marked userMessage exactly when it is marked
\* noLogging, whether it is marked is a function of its statusCode and message,
\* and all of them but validatePasswordToken rethrow it.
C16_ErrorMarking ==
    [][ \A p \in Procs :
          (proc'[p].pc = "idle" /\ InTry(proc[p].op, proc[p].pc) /\ last'.err # NoError) =>
             LET e == IF last'.op = "validatePasswordToken" THEN last'.err
                      ELSE last'.out.value
             IN /\ e.userMessage <=> e.noLogging
                /\ e.userMessage <=> Marks(last'.op, e.statusCode, e.message)
                /\ e.kind = "error"
                /\ IF last'.op = "validatePasswordToken"
                   THEN ResolvedWith(last', NoData)
                   ELSE /\ Rejected(last')
                        /\ e.statusCode = last'.err.statusCode
                        /\ e.message = last'.err.message
      ]_vars

\* C16 witness: signUp was rejected with the 400 of POST /customers, marked
\* userMessage and noLogging
C16_Witness ==
    /\ last.op = "signUp"
    /\ Rejected(last)
    /\ last.err.statusCode = 400
    /\ last.out.value.statusCode = 400
    /\ last.out.value.userMessage
    /\ last.out.value.noLogging

\* the path getCartPath is to return in session s
ExpectedCartPath(s) ==
    IF s.token # None THEN [base |-> "/carts/mine", id |-> None, tail |-> ""]
    ELSE [base |-> "/guest-carts", id |-> s.cart, tail |-> ""]

\* C17: wherever a resolver calls getCartPath (cart with a quoteId, addToCart
\* after ensureCart) it gets '/carts/mine' when the session has a customer
\* token, '/guest-carts/<quoteId>' when it has none but a cart, and the error
\* 'No cart in session for not registered user.' when it has neither; the
\* call leaves the session as it is.
C17_GetCartPath ==
    [][ /\ (Begins("cart") /\ HasQuoteId(session)) =>
             /\ StartedCall.cartPath = ExpectedCartPath(session)
             /\ session' = session
        /\ \A p \in Procs :
             /\ (proc[p].pc # "addToCart_items" /\ proc'[p].pc = "addToCart_items") =>
                  /\ session'.token # None \/ session'.cart # None
                  /\ proc'[p].cartPath = ExpectedCartPath(session')
             /\ (proc[p].pc = "addToCart_ensured" /\ proc'[p] # proc[p]) =>
                  /\ session' = session
                  /\ proc'[p].pc = "idle" <=> (session.token = None /\ session.cart = None)
                  /\ proc'[p].pc = "idle" =>
                       /\ Rejected(last')
                       /\ last'.out.value.message
                            = <<"No cart in session for not registered user.">>
      ]_vars

\* C17 witness: an addToCart that found a cart in the session was overtaken
\* by a signOut and got getCartPath's error
C17_Witness ==
    /\ last.op = "addToCart"
    /\ last.reqs = <<>>
    /\ Rejected(last)
    /\ last.out.value.message = <<"No cart in session for not registered user.">>
    /\ session.token = None
    /\ session.cart = None

\* the calls in flight and the one that settled last
Calls == {proc[p] : p \in Procs} \cup {last}

\* C18: every item POST of addToCart to /guest-carts/<quoteId>/items carries
\* that quoteId as quote_id in its body, whatever addToCart, ensureCart, cart
\* and signOut calls interleave with it.
C18_QuoteIdMatchesPath ==
    \A c \in Calls :
      c.op = "addToCart" =>
        \A i \in DOMAIN c.reqs :
          (c.reqs[i].path.base = "/guest-carts" /\ c.reqs[i].path.tail = "/items") =>
             /\ c.reqs[i].quote # None
             /\ c.reqs[i].quote = c.reqs[i].path.id

\* C10 witness: lastOrder after placeOrder fetched the order just placed
C10_Witness ==
    /\ last.op = "lastOrder"
    /\ Resolved(last)
    /\ placed # None
    /\ last.reqs = << Req("get", Path("/orders", placed, ""), None) >>
    /\ last.out.value = [kind |-> "order", id |-> placed]
====
